---- MODULE Spec2Model ----
(***************************************************************************)
(* Model of app.py: a Flask caching proxy in front of the Yandex geocode   *)
(* and suggest APIs, with an SQLite table geocache as the cache store.     *)
(*                                                                         *)
(* Strings that the code inspects character by character (the query) are   *)
(* sequences of one-character strings.  Python values that come out of     *)
(* response.json() / json.loads are records [t, v]: t is the Python type   *)
(* and v a sequence of integers (the members of a list or dict, the single *)
(* value of an int or bool, empty for None).                               *)
(***************************************************************************)
EXTENDS Integers, Sequences, FiniteSets, TLC

\* ------------------------------------------------------------------ bounds
MaxReq == 2        \* number of HTTP requests served in a behaviour
MaxPad == 1        \* blanks put around a submitted query text
MaxRows == 2       \* rows in geocache.db when the process starts
MaxBoot == 2       \* times the process is started on the same database file

\* ------------------------------------------------------- program constants
MinQueryLen == 3

Requests == 1..MaxReq
Services == {"geocode", "suggest"}

\* ------------------------------------------------------------ Python values
PyNone    == [t |-> "NoneType", v |-> <<>>]
PyFalse   == [t |-> "bool", v |-> <<0>>]
PyTrue    == [t |-> "bool", v |-> <<1>>]
PyInt(n)  == [t |-> "int",  v |-> <<n>>]
PyList(s) == [t |-> "list", v |-> s]
PyDict(s) == [t |-> "dict", v |-> s]

\* The JSON documents the model knows about.
JsonValues ==
    {PyNone, PyFalse, PyTrue, PyInt(0), PyInt(1),
     PyList(<<>>), PyList(<<1>>), PyList(<<1, 2>>),
     PyDict(<<>>), PyDict(<<1>>), PyDict(<<2>>)}

\* Bodies the upstream service answers with in a behaviour.
UpstreamPayloads == {PyDict(<<>>), PyDict(<<1>>)}

\* Python truth value of an object ("if cached := ...").
Truthy(x) ==
    CASE x.t = "NoneType" -> FALSE
      [] x.t = "bool"     -> x.v = <<1>>
      [] x.t = "int"      -> x.v # <<0>>
      [] OTHER            -> x.v # <<>>

RECURSIVE JoinItems(_)
JoinItems(s) ==
    IF s = <<>> THEN ""
    ELSE IF Len(s) = 1 THEN ToString(s[1])
    ELSE ToString(s[1]) \o ", " \o JoinItems(Tail(s))

RECURSIVE JoinMembers(_, _)
JoinMembers(s, n) ==
    IF s = <<>> THEN ""
    ELSE IF Len(s) = 1 THEN "\"k" \o ToString(n) \o "\": " \o ToString(s[1])
    ELSE "\"k" \o ToString(n) \o "\": " \o ToString(s[1]) \o ", "
         \o JoinMembers(Tail(s), n + 1)

\* json.dumps(data, ensure_ascii=False)
JsonDumps(x) ==
    CASE x.t = "NoneType" -> "null"
      [] x.t = "bool"     -> IF x.v = <<1>> THEN "true" ELSE "false"
      [] x.t = "int"      -> ToString(x.v[1])
      [] x.t = "list"     -> "[" \o JoinItems(x.v) \o "]"
      [] OTHER            -> "{" \o JoinMembers(x.v, 1) \o "}"

\* json.loads(text): the value whose serialisation is text.
JsonLoads(text) == CHOOSE x \in JsonValues : JsonDumps(x) = text

\* ------------------------------------------------------------------ queries
Whitespace == {" ", "\t", "\n"}

RECURSIVE LStrip(_)
LStrip(s) ==
    IF s # <<>> /\ Head(s) \in Whitespace THEN LStrip(Tail(s)) ELSE s

RECURSIVE RStrip(_)
RStrip(s) ==
    IF s # <<>> /\ s[Len(s)] \in Whitespace
    THEN RStrip(SubSeq(s, 1, Len(s) - 1)) ELSE s

\* str.strip()
Strip(s) == RStrip(LStrip(s))

\* str.lower() on the letters the model uses
LowerChar(ch) == IF ch = "A" THEN "a" ELSE ch
Lower(s) == [i \in 1..Len(s) |-> LowerChar(s[i])]

Blanks(n) == [i \in 1..n |-> " "]

\* Query texts a caller submits: nothing but blanks, a text of two letters,
\* two texts of three letters that differ in case only, and one of them with
\* MaxPad blanks spread before and after it.
QueryTexts ==
    {Blanks(n) : n \in 0..MaxPad}
    \cup {<<"a", "b">>, <<"a", "b", "c">>, <<"A", "b", "c">>}
    \cup {Blanks(l) \o <<"a", "b", "c">> \o Blanks(MaxPad - l) : l \in 0..MaxPad}

\* request.args: the query parameter is absent (<<>>) or present (<<text>>).
RequestArgs == {<<>>} \cup {<<q>> : q \in QueryTexts}

\* request.args.get("query", "")
ArgsGet(args) == IF args = <<>> THEN <<>> ELSE args[1]

\* ---------------------------------------------------------------- variables
VARIABLES
    GEOCODING_API_KEY,   \* os.getenv("YANDEX_GEOCODING_API_KEY")
    SUGGEST_API_KEY,     \* os.getenv("YANDEX_SUGGEST_API_KEY")
    geocache,            \* rows of table geocache, in insertion order
    req,                 \* the requests: handler locals, response, history
    schema,              \* what geocache.db holds besides the rows
    boot                 \* module import: init_db() runs, then requests are served

vars == <<GEOCODING_API_KEY, SUGGEST_API_KEY, geocache, req, schema, boot>>

\* os.getenv gives None for an unset variable, else its text.
EnvNone == "<None>"
EnvValues == {EnvNone, "", "key"}

\* A test for an unset variable only: an empty credential passes.
KeyMissingNoneOnly(key) == key = EnvNone

\* "not KEY"
KeyMissing(key) == key = EnvNone \/ key = ""

\* Both handlers test the geocoding credential.
ApiKeyGeocoding(svc) == GEOCODING_API_KEY

\* The credential each handler tests.
ApiKey(svc) == IF svc = "geocode" THEN GEOCODING_API_KEY ELSE SUGGEST_API_KEY

\* ---------------------------------------------------------------- the store
\* Ids of the rows of a table that carry the key (query, service_type).
KeyRows(table, query, service_type) ==
    {i \in 1..Len(table) :
        table[i].query = query /\ table[i].service_type = service_type}

\* A constraint UNIQUE(query) that leaves the service type out.
UniqueViolationQueryOnly(table, query, service_type) ==
    \E i \in 1..Len(table) : table[i].query = query

\* A table with no uniqueness constraint never rejects a key.
UniqueViolationOff(table, query, service_type) == FALSE

\* UNIQUE(query, service_type): would inserting this key break the constraint?
UniqueViolation(table, query, service_type) ==
    \E i \in 1..Len(table) :
        table[i].query = query /\ table[i].service_type = service_type

\* A WHERE clause that compares the query without regard to case.
RowMatchesNoCase(row, query, service_type) ==
    Lower(row.query) = Lower(query) /\ row.service_type = service_type

\* The WHERE clause of the SELECT: query = ? AND service_type = ?
RowMatches(row, query, service_type) ==
    row.query = query /\ row.service_type = service_type

\* Ids of the rows the SELECT yields.
SelectIds(table, query, service_type) ==
    {i \in 1..Len(table) : RowMatches(table[i], query, service_type)}

\* c.fetchone(): id of the first row of the result, 0 when there is none.
FetchOne(table, query, service_type) ==
    LET ids == SelectIds(table, query, service_type)
    IN  IF ids = {} THEN 0 ELSE CHOOSE i \in ids : \A j \in ids : i <= j

\* get_cached_result(query, service_type)
get_cached_result(table, query, service_type) ==
    LET result == FetchOne(table, query, service_type)
    IN  IF result # 0 THEN JsonLoads(table[result].response) ELSE PyNone

\* INSERT OR REPLACE: a row with the same key is overwritten.
InsertOrReplace(table, query, service_type, response) ==
    IF KeyRows(table, query, service_type) # {}
    THEN [table |-> [i \in 1..Len(table) |->
                        IF i \in KeyRows(table, query, service_type)
                        THEN [table[i] EXCEPT !.response = response]
                        ELSE table[i]],
          integrityError |-> FALSE]
    ELSE [table |-> Append(table, [id |-> Len(table) + 1, query |-> query,
                                   service_type |-> service_type,
                                   response |-> response]),
          integrityError |-> FALSE]

\* The INSERT statement: the table after it and whether sqlite3.IntegrityError
\* was raised (then nothing is inserted).
Insert(table, query, service_type, response) ==
    IF UniqueViolation(table, query, service_type)
    THEN [table |-> table, integrityError |-> TRUE]
    ELSE [table |-> Append(table, [id |-> Len(table) + 1, query |-> query,
                                   service_type |-> service_type,
                                   response |-> response]),
          integrityError |-> FALSE]

\* A save that always files the row under 'geocode'.
save_to_cache_geocode(table, query, service_type, data) ==
    LET ins == Insert(table, query, "geocode", JsonDumps(data))
    IN  [table |-> ins.table, raised |-> FALSE]

\* A save whose INSERT is never committed.
save_to_cache_lost(table, query, service_type, data) ==
    [table |-> table, raised |-> FALSE]

\* save_to_cache(query, service_type, data): the table afterwards and whether
\* an exception leaves the function ("except sqlite3.IntegrityError: pass").
save_to_cache(table, query, service_type, data) ==
    LET ins == Insert(table, query, service_type, JsonDumps(data))
    IN  [table |-> ins.table, raised |-> FALSE]

\* A validation that accepts queries of two characters.
validate_query_two(query) == Len(Strip(query)) < MinQueryLen - 1

\* validate_query(query): TRUE when the 400 response is returned.
validate_query(query) == Len(Strip(query)) < MinQueryLen

\* --------------------------------------------------------------- init_db
\* service_type of a row of a table that has no such column.
NoColumn == "<no column>"

\* A database file: is there a table geocache, has it the column
\* service_type, was it created with UNIQUE(query, service_type), is there
\* the unique index idx_query_service, and its rows.
NoDatabase ==
    [table |-> FALSE, column |-> FALSE, tableUnique |-> FALSE,
     index |-> FALSE, rows |-> <<>>]

SchemaOf(db) ==
    [table |-> db.table, column |-> db.column,
     tableUnique |-> db.tableUnique, index |-> db.index]

Database(sch, rows) ==
    [table |-> sch.table, column |-> sch.column,
     tableUnique |-> sch.tableUnique, index |-> sch.index, rows |-> rows]

\* Two rows carry the same (query, service_type).
HasDuplicateKey(rows) ==
    \E i, j \in 1..Len(rows) :
        /\ i < j
        /\ rows[i].query = rows[j].query
        /\ rows[i].service_type = rows[j].service_type

\* CREATE TABLE IF NOT EXISTS geocache (..., UNIQUE(query, service_type))
CreateTable(db) ==
    IF db.table THEN db
    ELSE [table |-> TRUE, column |-> TRUE, tableUnique |-> TRUE,
          index |-> FALSE, rows |-> <<>>]

\* PRAGMA table_info(geocache): 'service_type' in columns
HasServiceTypeColumn(db) == db.column

\* ALTER TABLE geocache ADD COLUMN service_type TEXT NOT NULL DEFAULT 'geocode'
\* (a DDL statement: sqlite3 opens no transaction for it, it is durable at once)
AddColumn(db) ==
    [db EXCEPT !.column = TRUE,
               !.rows = [i \in 1..Len(db.rows) |->
                            [db.rows[i] EXCEPT !.service_type = "geocode"]]]

\* An index statement that creates nothing.
CreateUniqueIndexNoop(db) == [db |-> db, error |-> ""]

\* CREATE UNIQUE INDEX IF NOT EXISTS idx_query_service
\* ON geocache(query, service_type): the database after it and the exception.
CreateUniqueIndex(db) ==
    IF db.index THEN [db |-> db, error |-> ""]
    ELSE IF ~db.column THEN [db |-> db, error |-> "OperationalError"]
    ELSE IF HasDuplicateKey(db.rows) THEN [db |-> db, error |-> "IntegrityError"]
    ELSE [db |-> [db EXCEPT !.index = TRUE], error |-> ""]

\* "except sqlite3.OperationalError": the exceptions the clause catches.
Caught(error) == error = "OperationalError"

\* init_db() on a database.  alterFails / indexFails: the statement, when it
\* has to write, fails with sqlite3.OperationalError (database locked or
\* read-only).  Result: the database, the warnings printed, and whether an
\* exception left the function.
init_db(db, alterFails, indexFails) ==
    LET d1 == CreateTable(db)
        alter == ~HasServiceTypeColumn(d1)
        e2 == IF alter /\ alterFails THEN "OperationalError" ELSE ""
        d2 == IF alter /\ e2 = "" THEN AddColumn(d1) ELSE d1
        r3 == IF indexFails /\ ~d2.index
              THEN [db |-> d2, error |-> "OperationalError"]
              ELSE CreateUniqueIndex(d2)
    IN  [db |-> r3.db,
         warnings |-> (IF e2 # "" THEN 1 ELSE 0)
                      + (IF r3.error # "" /\ Caught(r3.error) THEN 1 ELSE 0),
         raised |-> r3.error # "" /\ ~Caught(r3.error)]

\* The database and boot record of a process started once on no database.
FreshStart == init_db(NoDatabase, FALSE, FALSE)

Booted ==
    [pc |-> "serving", runs |-> 1, warnings |-> FreshStart.warnings,
     before |-> NoDatabase]

\* ----------------------------------------------------------------- requests
NoValue == PyNone

IdleRequest ==
    [pc |-> "idle", svc |-> "geocode", args |-> <<>>, query |-> <<>>,
     data |-> NoValue, status |-> 0, source |-> "", result |-> NoValue,
     error |-> "", lookups |-> 0, fetches |-> 0, writes |-> 0,
     stored |-> FALSE, hitId |-> 0, insertedId |-> 0, retry |-> FALSE]

\* The text of the query parameter after the handler's strip().
TrimmedQuery(r) == Strip(ArgsGet(req[r].args))

\* A response with an error body.
ErrorResponse(rec, status, error) ==
    [rec EXCEPT !.pc = "done", !.status = status, !.error = error]

\* A response that tags every payload as cached.
ResultResponseCache(rec, result, source) ==
    [rec EXCEPT !.pc = "done", !.status = 200, !.result = result,
                !.source = "cache"]

\* A response {"result": ..., "source": ...} (status 200).
ResultResponse(rec, result, source) ==
    [rec EXCEPT !.pc = "done", !.status = 200, !.result = result,
                !.source = source]

\* Source tag of a payload that was just fetched.
FetchedSource == "yandex"

\* Source tag of a payload read from the table.
CachedSource == "cache"

\* Some finished request for the same key ended in the handler's 500.
FailedBefore(svc, query) ==
    \E p \in Requests :
        /\ req[p].pc = "done" /\ req[p].status = 500
        /\ req[p].svc = svc /\ req[p].query = query

Init ==
    /\ GEOCODING_API_KEY \in EnvValues
    /\ SUGGEST_API_KEY \in EnvValues
    /\ geocache = FreshStart.db.rows
    /\ schema = SchemaOf(FreshStart.db)
    /\ boot = Booted
    /\ req = [r \in Requests |-> IdleRequest]

\* A handler that validates the query before it tests the credential.
BeginValidateFirst(r, svc, args) ==
    /\ boot.pc = "serving"
    /\ req[r].pc = "idle"
    /\ \A p \in Requests : p < r => req[p].pc # "idle"
    /\ LET query == Strip(ArgsGet(args))
           rec == [req[r] EXCEPT !.svc = svc, !.args = args,
                                 !.stored = KeyRows(geocache,
                                     Strip(ArgsGet(args)), svc) # {}]
       IN  req' = [req EXCEPT ![r] =
               IF validate_query(query)
               THEN ErrorResponse([rec EXCEPT !.query = query], 400,
                                  "Query must be at least 3 characters")
               ELSE IF KeyMissing(ApiKey(svc))
               THEN ErrorResponse(rec, 503, "service unavailable")
               ELSE [rec EXCEPT !.query = query, !.pc = "lookup",
                                !.retry = FailedBefore(svc, query)]]
    /\ UNCHANGED <<GEOCODING_API_KEY, SUGGEST_API_KEY, geocache, schema, boot>>

\* A request arrives at /geocode or /suggest: the credential check, the
\* strip() of the query parameter and validate_query.
Begin(r, svc, args) ==
    /\ boot.pc = "serving"
    /\ req[r].pc = "idle"
    /\ \A p \in Requests : p < r => req[p].pc # "idle"
    /\ LET query == Strip(ArgsGet(args))
           rec == [req[r] EXCEPT !.svc = svc, !.args = args,
                                 !.stored = KeyRows(geocache,
                                     Strip(ArgsGet(args)), svc) # {}]
       IN  req' = [req EXCEPT ![r] =
               IF KeyMissing(ApiKey(svc))
               THEN ErrorResponse(rec, 503, "service unavailable")
               ELSE IF validate_query(query)
               THEN ErrorResponse([rec EXCEPT !.query = query], 400,
                                  "Query must be at least 3 characters")
               ELSE [rec EXCEPT !.query = query, !.pc = "lookup",
                                !.retry = FailedBefore(svc, query)]]
    /\ UNCHANGED <<GEOCODING_API_KEY, SUGGEST_API_KEY, geocache, schema, boot>>

\* "if cached := get_cached_result(query, svc): return ... source cache"
CacheCheck(r) ==
    /\ req[r].pc = "lookup"
    /\ LET cached == get_cached_result(geocache, req[r].query, req[r].svc)
           rec == [req[r] EXCEPT !.lookups = @ + 1]
       IN  req' = [req EXCEPT ![r] =
               IF Truthy(cached)
               THEN ResultResponse(
                        [rec EXCEPT !.hitId = FetchOne(geocache, req[r].query,
                                                       req[r].svc)],
                        cached, CachedSource)
               ELSE [rec EXCEPT !.pc = "fetch"]]
    /\ UNCHANGED <<GEOCODING_API_KEY, SUGGEST_API_KEY, geocache, schema, boot>>

\* A handler that stores the error body of a failed upstream call.
UpstreamFailsStored(r) ==
    /\ req[r].pc = "fetch"
    /\ geocache' = Insert(geocache, req[r].query, req[r].svc,
                          JsonDumps(PyDict(<<>>))).table
    /\ req' = [req EXCEPT ![r] =
           ErrorResponse([req[r] EXCEPT !.fetches = @ + 1], 500, "Yandex error")]
    /\ UNCHANGED <<GEOCODING_API_KEY, SUGGEST_API_KEY, schema, boot>>

\* A handler that goes back to the cache check when the upstream call fails.
UpstreamFailsRetry(r) ==
    /\ req[r].pc = "fetch"
    /\ req[r].fetches < 2
    /\ req' = [req EXCEPT ![r] =
           [req[r] EXCEPT !.fetches = @ + 1, !.pc = "lookup"]]
    /\ UNCHANGED <<GEOCODING_API_KEY, SUGGEST_API_KEY, geocache, schema, boot>>

\* requests.get + raise_for_status raise RequestException: the 500 response.
UpstreamFails(r) ==
    /\ req[r].pc = "fetch"
    /\ req' = [req EXCEPT ![r] =
           ErrorResponse([req[r] EXCEPT !.fetches = @ + 1], 500, "Yandex error")]
    /\ UNCHANGED <<GEOCODING_API_KEY, SUGGEST_API_KEY, geocache, schema, boot>>

\* The upstream answers 2xx with a body that is not JSON: response.json()
\* raises outside the try block and Flask answers 500.
UpstreamNotJson(r) ==
    /\ req[r].pc = "fetch"
    /\ req' = [req EXCEPT ![r] =
           ErrorResponse([req[r] EXCEPT !.fetches = @ + 1], 500,
                         "Internal Server Error")]
    /\ UNCHANGED <<GEOCODING_API_KEY, SUGGEST_API_KEY, geocache, schema, boot>>

\* The upstream answers 2xx with a JSON body: data = response.json()
UpstreamAnswers(r, payload) ==
    /\ req[r].pc = "fetch"
    /\ req' = [req EXCEPT ![r] =
           [req[r] EXCEPT !.fetches = @ + 1, !.data = payload, !.pc = "save"]]
    /\ UNCHANGED <<GEOCODING_API_KEY, SUGGEST_API_KEY, geocache, schema, boot>>

\* A handler that answers with what the table holds after the save.
PersistReturnsStored(r) ==
    /\ req[r].pc = "save"
    /\ LET saved == save_to_cache(geocache, req[r].query, req[r].svc, req[r].data)
           rec == [req[r] EXCEPT !.writes = @ + 1,
                      !.insertedId = IF Len(saved.table) > Len(geocache)
                                     THEN Len(saved.table) ELSE 0]
       IN  /\ geocache' = saved.table
           /\ req' = [req EXCEPT ![r] =
                  ResultResponse(rec,
                      get_cached_result(saved.table, req[r].query, req[r].svc),
                      FetchedSource)]
    /\ UNCHANGED <<GEOCODING_API_KEY, SUGGEST_API_KEY, schema, boot>>

\* save_to_cache(query, svc, data); return ... source yandex
Persist(r) ==
    /\ req[r].pc = "save"
    /\ LET saved == save_to_cache(geocache, req[r].query, req[r].svc, req[r].data)
           rec == [req[r] EXCEPT !.writes = @ + 1,
                      !.insertedId = IF Len(saved.table) > Len(geocache)
                                     THEN Len(saved.table) ELSE 0]
       IN  /\ geocache' = saved.table
           /\ req' = [req EXCEPT ![r] =
                  IF saved.raised
                  THEN ErrorResponse(rec, 500, "Internal Server Error")
                  ELSE ResultResponse(rec, req[r].data, FetchedSource)]
    /\ UNCHANGED <<GEOCODING_API_KEY, SUGGEST_API_KEY, schema, boot>>

\* A route: requests for one service arrive with arguments out of argSet and
\* are handled step by step.
Route(svc, argSet) ==
    \E r \in Requests :
        \/ \E args \in argSet : Begin(r, svc, args)
        \/ req[r].svc = svc /\ CacheCheck(r)
        \/ req[r].svc = svc /\ UpstreamFails(r)
        \/ req[r].svc = svc /\ UpstreamNotJson(r)
        \/ req[r].svc = svc /\ \E p \in UpstreamPayloads : UpstreamAnswers(r, p)
        \/ req[r].svc = svc /\ Persist(r)

\* The /geocode route.
geocode == Route("geocode", RequestArgs)

\* The /suggest route.
suggest == Route("suggest", RequestArgs)

Next == geocode \/ suggest

Spec == Init /\ [][Next]_vars

\* What a request that is being handled does next: the store calls and the
\* upstream call return, so the handler thread goes on.
HandlerStep(r) ==
    \/ CacheCheck(r)
    \/ UpstreamFails(r)
    \/ UpstreamNotJson(r)
    \/ \E p \in UpstreamPayloads : UpstreamAnswers(r, p)
    \/ Persist(r)

\* Requests without a query, with one that is too short and with one that is
\* long enough.
PlainArgs == {<<>>, <<(<<"a", "b">>)>>, <<(<<"a", "b", "c">>)>>}

NextPlain == Route("geocode", PlainArgs) \/ Route("suggest", PlainArgs)

\* The handlers under the scheduling the server gives them: a request that is
\* being handled is not left waiting for ever.
SpecFair ==
    Init /\ [][NextPlain]_vars /\ \A r \in Requests : WF_vars(HandlerStep(r))

\* The table a run that had both credentials left in geocache.db.
WarmTable ==
    <<[id |-> 1, query |-> <<"a", "b", "c">>, service_type |-> "geocode",
       response |-> JsonDumps(PyDict(<<1>>))],
      [id |-> 2, query |-> <<"a", "b", "c">>, service_type |-> "suggest",
       response |-> JsonDumps(PyDict(<<1>>))]>>

\* The process starts on the database file of an earlier run: init_db keeps
\* the rows (CREATE TABLE IF NOT EXISTS).
InitWarm ==
    /\ GEOCODING_API_KEY \in EnvValues
    /\ SUGGEST_API_KEY \in EnvValues
    /\ geocache = WarmTable
    /\ schema = SchemaOf(FreshStart.db)
    /\ boot = [Booted EXCEPT
                  !.before = Database(SchemaOf(FreshStart.db), WarmTable)]
    /\ req = [r \in Requests |-> IdleRequest]

SpecWarm == InitWarm /\ [][Next]_vars

\* ------------------------------------------------------ process start
\* Queries of the rows an earlier version of the program left in the file.
StoredQueries == {<<"a", "b", "c">>, <<"A", "b", "c">>}

\* The rows of a table with n rows; withColumn: it has service_type.
RowsOfLength(n, withColumn) ==
    LET types == IF withColumn THEN Services ELSE {NoColumn}
    IN  {[i \in 1..n |-> [id |-> i, query |-> f[i][1], service_type |-> f[i][2],
                          response |-> JsonDumps(PyDict(<<1>>))]] :
            f \in [1..n -> StoredQueries \X types]}

\* The database files a process can be started on: none, a table that
\* pre-dates the service_type column, a table that has the column but no
\* uniqueness constraint or only one of the two, and a complete one.  A table
\* under a uniqueness constraint holds no key twice.
StartDatabases ==
    {NoDatabase} \cup
    {db \in UNION {[table : {TRUE}, column : {col}, tableUnique : BOOLEAN,
                    index : BOOLEAN,
                    rows : UNION {RowsOfLength(n, col) : n \in 0..MaxRows}] :
                       col \in BOOLEAN} :
        /\ ~db.column => ~db.tableUnique /\ ~db.index
        /\ db.tableUnique \/ db.index => ~HasDuplicateKey(db.rows)}

\* The interpreter is about to import the module (line 57 not yet run).
InitBoot ==
    /\ GEOCODING_API_KEY \in EnvValues
    /\ SUGGEST_API_KEY \in EnvValues
    /\ \E db \in StartDatabases :
           /\ geocache = db.rows
           /\ schema = SchemaOf(db)
           /\ boot = [pc |-> "start", runs |-> 0, warnings |-> 0, before |-> db]
    /\ req = [r \in Requests |-> IdleRequest]

\* "init_db()" at import: the whole function, on the database as it is.
InitDb ==
    /\ boot.pc = "start"
    /\ \E alterFails, indexFails \in BOOLEAN :
           LET out == init_db(Database(schema, geocache), alterFails, indexFails)
           IN  /\ geocache' = out.db.rows
               /\ schema' = SchemaOf(out.db)
               /\ boot' = [pc |-> IF out.raised THEN "failed" ELSE "serving",
                           runs |-> boot.runs + 1,
                           warnings |-> out.warnings,
                           before |-> Database(schema, geocache)]
    /\ UNCHANGED <<GEOCODING_API_KEY, SUGGEST_API_KEY, req>>

\* The process is stopped (or has died at import) and is started again on the
\* same database file.
Restart ==
    /\ boot.pc \in {"serving", "failed"}
    /\ boot.runs < MaxBoot
    /\ boot' = [boot EXCEPT !.pc = "start"]
    /\ UNCHANGED <<GEOCODING_API_KEY, SUGGEST_API_KEY, geocache, req, schema>>

NextBoot == InitDb \/ Restart

SpecBoot == InitBoot /\ [][NextBoot]_vars

\* ------------------------------------------------------------- properties
Done(r) == req[r].pc = "done"

\* The key of a request as the caller sees it: service and trimmed query.
SameKey(r1, r2) ==
    /\ req[r1].svc = req[r2].svc
    /\ TrimmedQuery(r1) = TrimmedQuery(r2)

\* The credential of a service is configured (set and not empty).
CredentialSet(svc) ==
    \/ svc = "geocode" /\ GEOCODING_API_KEY \notin {EnvNone, ""}
    \/ svc = "suggest" /\ SUGGEST_API_KEY \notin {EnvNone, ""}

\* The request went through save_to_cache.
Persisted(r) == Done(r) /\ req[r].writes = 1

\* C1: a request that starts when its key already has a stored entry returns
\* the stored payload tagged "cache" and makes no upstream call, whatever
\* the payload (empty payloads included).
C1_IdempotentReadThrough ==
    \A r \in Requests :
        Done(r) /\ req[r].stored =>
            /\ req[r].source = "cache"
            /\ req[r].fetches = 0
            /\ \E i \in KeyRows(geocache, TrimmedQuery(r), req[r].svc) :
                   geocache[i].response = JsonDumps(req[r].result)

\* C2: when two requests for the same key both missed and both went through
\* the store write, the table holds exactly one row for the key, its payload
\* is the one fetched by a request of that key, and both got a 200 response.
C2_WriteRace ==
    \A r1, r2 \in Requests :
        r1 # r2 /\ SameKey(r1, r2) /\ Persisted(r1) /\ Persisted(r2) =>
            LET rows == KeyRows(geocache, TrimmedQuery(r1), req[r1].svc)
            IN  /\ Cardinality(rows) = 1
                /\ \E r \in Requests :
                       /\ Persisted(r) /\ SameKey(r, r1)
                       /\ \A i \in rows :
                              geocache[i].response = JsonDumps(req[r].data)
                /\ req[r1].status = 200 /\ req[r2].status = 200
                /\ req[r1].error = "" /\ req[r2].error = ""

\* Two requests that both started before the key was stored, fetched
\* different payloads and both tried to store; one of them lost.
C2_Witness ==
    \E r1, r2 \in Requests :
        /\ r1 # r2 /\ SameKey(r1, r2) /\ Persisted(r1) /\ Persisted(r2)
        /\ ~req[r1].stored /\ ~req[r2].stored
        /\ req[r1].data # req[r2].data
        /\ req[r1].insertedId # 0 /\ req[r2].insertedId = 0

\* C3: a row, once in the table, stays there unchanged and stays the only row
\* of its key; a store attempt for a key that already has a row changes
\* nothing and still ends in the 200 response.
C3_FirstWriteWins ==
    [][/\ \A i \in 1..Len(geocache) :
              /\ i <= Len(geocache')
              /\ geocache'[i] = geocache[i]
              /\ KeyRows(geocache', geocache[i].query,
                         geocache[i].service_type) = {i}
       /\ \A r \in Requests :
              /\ req[r].pc = "save" /\ req'[r].pc # "save"
              /\ KeyRows(geocache, req[r].query, req[r].svc) # {}
              => geocache' = geocache /\ req'[r].status = 200]_vars

\* A finished request whose store attempt was discarded while the row of its
\* key holds a different payload.
C3_Witness ==
    \E r \in Requests :
        /\ Persisted(r) /\ req[r].insertedId = 0
        /\ \E i \in KeyRows(geocache, req[r].query, req[r].svc) :
               geocache[i].response # JsonDumps(req[r].data)

C5_TransportFailureNotCached ==
    [][\A r \in Requests :
          /\ req[r].pc = "fetch" /\ req'[r].pc = "done"
             => /\ req'[r].status = 500
                /\ req'[r].writes = 0
                /\ geocache' = geocache
          /\ /\ req[r].retry /\ req[r].pc = "lookup" /\ req'[r].pc # "lookup"
             /\ KeyRows(geocache, req[r].query, req[r].svc) = {}
             => req'[r].pc = "fetch" /\ geocache' = geocache]_vars

\* A request failed with 500, no row was written for its key, and a request
\* for the same key that started afterwards has called upstream.
C5_Witness ==
    \E r1, r2 \in Requests :
        /\ r1 # r2 /\ SameKey(r1, r2)
        /\ Done(r1) /\ req[r1].status = 500 /\ req[r1].error = "Yandex error"
        /\ req[r2].retry /\ req[r2].fetches = 1 /\ ~req[r2].stored

\* C6: a request whose trimmed query is shorter than 3 characters (absent
\* parameter and blank-only text included) does no table lookup, no table
\* write and no upstream call, on either endpoint and with any credentials.
C6_ShortQueryNoAccess ==
    \A r \in Requests :
        req[r].pc # "idle" /\ Len(TrimmedQuery(r)) < 3 =>
            /\ Done(r)
            /\ req[r].lookups = 0 /\ req[r].fetches = 0 /\ req[r].writes = 0
            /\ \A i \in 1..Len(geocache) : Len(geocache[i].query) >= 3

\* Short queries of every kind were answered on both endpoints.
C6_Witness ==
    /\ \E r \in Requests : Done(r) /\ req[r].args = <<>>
    /\ \E r \in Requests :
           /\ Done(r) /\ req[r].svc = "suggest" /\ CredentialSet("suggest")
           /\ req[r].args # <<>> /\ ArgsGet(req[r].args) # <<>>
           /\ Len(TrimmedQuery(r)) < 3

\* C7 as stated: a request with a trimmed query shorter than 3 gets status
\* 400 whether the credential of its service is set or not.
C7_ShortQueryAlways400 ==
    \A r \in Requests :
        Done(r) /\ Len(TrimmedQuery(r)) < 3 => req[r].status = 400

\* C7 amended: a request with a trimmed query shorter than 3 gets status 400
\* when the credential of its service is set, and 503 when it is absent.
C7_ShortQuery400IfCredential ==
    \A r \in Requests :
        req[r].pc # "idle" /\ Len(TrimmedQuery(r)) < 3 =>
            /\ Done(r)
            /\ req[r].status = IF CredentialSet(req[r].svc) THEN 400 ELSE 503

\* The query "ab" was answered 400 on one endpoint and 503 on the other.
C7_Witness ==
    \E r1, r2 \in Requests :
        /\ req[r1].args = <<(<<"a", "b">>)>> /\ req[r2].args = <<(<<"a", "b">>)>>
        /\ Done(r1) /\ req[r1].status = 400
        /\ Done(r2) /\ req[r2].status = 503

\* C8: with the credential of a service absent, every request to its endpoint
\* ends with status 503 and does no table lookup, no table write and no
\* upstream call, whatever its query.
C8_NoCredential503 ==
    \A r \in Requests :
        req[r].pc # "idle" /\ ~CredentialSet(req[r].svc) =>
            /\ Done(r) /\ req[r].status = 503
            /\ req[r].lookups = 0 /\ req[r].fetches = 0 /\ req[r].writes = 0
            /\ req[r].result = NoValue /\ req[r].source = ""

\* A request for a key that has a row was refused with 503, and so was a
\* request with a short query and one for a key that has no row.
C8_Witness ==
    /\ \E r \in Requests :
           /\ Done(r) /\ req[r].status = 503
           /\ KeyRows(geocache, TrimmedQuery(r), req[r].svc) # {}
    /\ \E r \in Requests :
           /\ Done(r) /\ req[r].status = 503
           /\ KeyRows(geocache, TrimmedQuery(r), req[r].svc) = {}

\* C9 as stated: the key is the query as submitted, so a request never hits
\* the row written by a request whose submitted query text differs.
C9_KeyIsSubmittedQuery ==
    \A r1, r2 \in Requests :
        /\ req[r1].insertedId # 0
        /\ req[r2].hitId = req[r1].insertedId
        => ArgsGet(req[r1].args) = ArgsGet(req[r2].args)

\* C9 amended: the key is the submitted query with leading and trailing
\* whitespace removed and nothing else changed: a request hits the row written
\* by another request only if their trimmed queries are the same text (same
\* case, same inner whitespace) and the service is the same.
C9_KeyIsTrimmedQuery ==
    \A r1, r2 \in Requests :
        /\ req[r1].insertedId # 0
        /\ req[r2].hitId = req[r1].insertedId
        => /\ TrimmedQuery(r1) = TrimmedQuery(r2)
           /\ req[r1].svc = req[r2].svc
           /\ geocache[req[r2].hitId].query = TrimmedQuery(r2)

\* A request hit the row written by a request whose submitted query differs
\* from its own by surrounding blanks.
C9_Witness ==
    \E r1, r2 \in Requests :
        /\ req[r1].insertedId # 0
        /\ req[r2].hitId = req[r1].insertedId
        /\ ArgsGet(req[r1].args) # ArgsGet(req[r2].args)

\* Two queries that differ in case only were both fetched and have a row each.
C9_CaseWitness ==
    \E r1, r2 \in Requests :
        /\ req[r1].insertedId # 0 /\ req[r2].insertedId # 0
        /\ req[r1].svc = req[r2].svc
        /\ TrimmedQuery(r1) # TrimmedQuery(r2)
        /\ Lower(TrimmedQuery(r1)) = Lower(TrimmedQuery(r2))

\* C10: a cache hit is always on a row of the request's own service type and
\* query; and once requests of both services have fetched and stored the same
\* query, the table holds exactly one row per service type for that query,
\* each with a payload fetched by a request of that service.
C10_ServiceIsolation ==
    /\ \A r \in Requests :
           req[r].hitId # 0 =>
               /\ geocache[req[r].hitId].service_type = req[r].svc
               /\ geocache[req[r].hitId].query = TrimmedQuery(r)
    /\ \A r1, r2 \in Requests :
           /\ Persisted(r1) /\ Persisted(r2)
           /\ req[r1].svc = "geocode" /\ req[r2].svc = "suggest"
           /\ TrimmedQuery(r1) = TrimmedQuery(r2)
           => \A svc \in Services :
                  LET rows == KeyRows(geocache, TrimmedQuery(r1), svc)
                  IN  /\ Cardinality(rows) = 1
                      /\ \A i \in rows : \E r \in Requests :
                             /\ Persisted(r) /\ req[r].svc = svc
                             /\ TrimmedQuery(r) = TrimmedQuery(r1)
                             /\ geocache[i].response = JsonDumps(req[r].data)

\* The same query has a row for each service, with different payloads.
C10_Witness ==
    \E i, j \in 1..Len(geocache) :
        /\ geocache[i].query = geocache[j].query
        /\ geocache[i].service_type = "geocode"
        /\ geocache[j].service_type = "suggest"
        /\ geocache[i].response # geocache[j].response

\* A run of init_db has ended.
InitRan == boot.runs >= 1 /\ boot.pc \in {"serving", "failed"}

\* The table has the service_type column and the unique index on
\* (query, service_type), and no key twice.
SchemaReady ==
    /\ schema.table /\ schema.column /\ schema.index
    /\ \A i, j \in 1..Len(geocache) :
           /\ geocache[i].query = geocache[j].query
           /\ geocache[i].service_type = geocache[j].service_type
           => i = j

\* The rows are those of the database before the run; rows of a table that
\* had no service_type column now carry 'geocode'.
RowsPreserved ==
    /\ Len(geocache) = Len(boot.before.rows)
    /\ \A i \in 1..Len(geocache) :
           /\ geocache[i].id = boot.before.rows[i].id
           /\ geocache[i].query = boot.before.rows[i].query
           /\ geocache[i].response = boot.before.rows[i].response
           /\ geocache[i].service_type =
                  IF boot.before.column THEN boot.before.rows[i].service_type
                  ELSE "geocode"

\* The rows before the run hold some query twice under one service type
\* (rows without the column all count as 'geocode').
DuplicatesBefore ==
    \E i, j \in 1..Len(boot.before.rows) :
        /\ i < j
        /\ boot.before.rows[i].query = boot.before.rows[j].query
        /\ boot.before.rows[i].service_type = boot.before.rows[j].service_type

C12_MigrationFailureNonFatal ==
    InitRan => boot.pc = "serving"

\* Position of a request in the handler.
Rank(pc) ==
    CASE pc = "idle" -> 0 [] pc = "lookup" -> 1 [] pc = "fetch" -> 2
      [] pc = "save" -> 3 [] OTHER -> 4

\* The terminal outcomes a finished request shows.
Outcomes(r) ==
    {o \in {"503", "400", "500", "cache", "fetched"} :
        \/ o = "503" /\ req[r].status = 503
        \/ o = "400" /\ req[r].status = 400
        \/ o = "500" /\ req[r].status = 500
        \/ o = "cache" /\ req[r].status = 200 /\ req[r].fetches = 0
        \/ o = "fetched" /\ req[r].status = 200 /\ req[r].fetches = 1}

\* C13: a request only moves forward through cache check, upstream fetch,
\* persist and response; it does at most one lookup, one upstream call and
\* one store write; a finished request shows exactly one terminal outcome,
\* which never changes; and every request that is being handled finishes.
C13_SinglePass ==
    /\ [][\A r \in Requests :
             /\ req'[r] # req[r] => Rank(req'[r].pc) > Rank(req[r].pc)
             /\ req'[r].lookups <= 1 /\ req'[r].fetches <= 1
             /\ req'[r].writes <= 1
             /\ req'[r].fetches = 1 => req'[r].lookups = 1
             /\ req'[r].writes = 1 => req'[r].fetches = 1
             /\ req'[r].pc = "done" => Cardinality(Outcomes(r)') = 1]_vars
    /\ \A r \in Requests :
           (req[r].pc \in {"lookup", "fetch", "save"}) ~> (req[r].pc = "done")

\* Requests have finished with the outcomes 500 and fetched after all three
\* calls or the first two.
C13_Witness ==
    \E r1, r2 \in Requests :
        /\ Done(r1) /\ Outcomes(r1) = {"fetched"} /\ req[r1].writes = 1
        /\ Done(r2) /\ Outcomes(r2) = {"500"} /\ req[r2].lookups = 1

\* The other service.
Other(svc) == IF svc = "geocode" THEN "suggest" ELSE "geocode"

\* C14: a request is answered 503 exactly when the credential of its own
\* service is absent; with its own credential set it is validated, looked up
\* and fetched as usual whatever the other credential is, and no row of a
\* service without credential is ever written.
C14_CredentialsIndependent ==
    /\ \A r \in Requests :
           req[r].pc # "idle" =>
               /\ req[r].status = 503 <=> ~CredentialSet(req[r].svc)
               /\ CredentialSet(req[r].svc) =>
                      IF Len(TrimmedQuery(r)) < 3
                      THEN req[r].status = 400 /\ req[r].lookups = 0
                      ELSE /\ req[r].status \in {0, 200, 500}
                           /\ Done(r) => req[r].lookups = 1
    /\ \A i \in 1..Len(geocache) : CredentialSet(geocache[i].service_type)

\* With one credential absent, a request of the other service was fetched and
\* stored while a request of the service without credential got 503.
C14_Witness ==
    \E r1, r2 \in Requests :
        /\ CredentialSet(req[r1].svc) /\ ~CredentialSet(Other(req[r1].svc))
        /\ Done(r1) /\ req[r1].status = 200 /\ req[r1].insertedId # 0
        /\ req[r2].svc = Other(req[r1].svc)
        /\ Done(r2) /\ req[r2].status = 503

\* C15: an entry is stored under the trimmed query, and a request that starts
\* once it is stored and whose submitted query differs from the writer's only
\* by surrounding whitespace is served from that entry as a cache hit.
C15_TrimmedQueryEverywhere ==
    /\ \A r \in Requests :
           req[r].insertedId # 0 =>
               /\ geocache[req[r].insertedId].query = TrimmedQuery(r)
               /\ req[r].query = TrimmedQuery(r)
    /\ \A r1, r2 \in Requests :
           /\ req[r1].insertedId # 0 /\ SameKey(r1, r2)
           /\ req[r1].args # req[r2].args
           /\ req[r2].stored /\ Done(r2)
           => /\ req[r2].hitId = req[r1].insertedId
              /\ req[r2].source = "cache"
              /\ req[r2].fetches = 0

\* C16: every row was inserted by a request of the row's service type for the
\* row's query, out of the body of its successful upstream call.
C16_RowsComeFromFetches ==
    \A i \in 1..Len(geocache) :
        \E r \in Requests :
            /\ req[r].insertedId = i
            /\ req[r].svc = geocache[i].service_type
            /\ TrimmedQuery(r) = geocache[i].query
            /\ req[r].fetches = 1 /\ req[r].status = 200
            /\ req[r].data \in UpstreamPayloads
            /\ geocache[i].response = JsonDumps(req[r].data)

\* One request stored the body it fetched under its own key while another
\* request, for another key, failed upstream and left no row.
C16_Witness ==
    \E r, f \in Requests :
        /\ req[r].insertedId # 0 /\ Done(r) /\ req[r].status = 200
        /\ ~SameKey(r, f)
        /\ Done(f) /\ req[f].status = 500 /\ req[f].fetches = 1
        /\ KeyRows(geocache, TrimmedQuery(f), req[f].svc) = {}

\* C17: a 200 response tagged cache carries the payload of the row of its
\* key; any other 200 response carries the payload the request itself fetched,
\* also when its store attempt was discarded.
C17_ResponsePayload ==
    \A r \in Requests :
        Done(r) /\ req[r].status = 200 =>
            IF req[r].source = "cache"
            THEN /\ req[r].hitId \in KeyRows(geocache, TrimmedQuery(r), req[r].svc)
                 /\ JsonDumps(req[r].result) = geocache[req[r].hitId].response
            ELSE /\ req[r].fetches = 1
                 /\ req[r].result = req[r].data

\* A request lost the store race and answered with its own payload while the
\* row of its key holds another payload, one that later lookups hit.
C17_Witness ==
    \E r \in Requests :
        /\ Done(r) /\ req[r].status = 200 /\ req[r].source # "cache"
        /\ req[r].insertedId = 0 /\ ~req[r].stored
        /\ \E i \in KeyRows(geocache, TrimmedQuery(r), req[r].svc) :
               /\ geocache[i].response # JsonDumps(req[r].result)
               /\ Truthy(JsonLoads(geocache[i].response))

\* C18: when a request has answered 200 with a payload it fetched, the table
\* holds a row for its key, inserted by this request or by another one.
C18_PersistBeforeRespond ==
    \A r \in Requests :
        Done(r) /\ req[r].status = 200 /\ req[r].fetches = 1 =>
            \E i \in KeyRows(geocache, TrimmedQuery(r), req[r].svc) :
                \/ req[r].insertedId = i
                \/ \E w \in Requests : w # r /\ req[w].insertedId = i

\* A request answered with a fetched payload while the row of its key is the
\* one a concurrent request inserted.
C18_Witness ==
    \E r, w \in Requests :
        /\ r # w /\ SameKey(r, w)
        /\ Done(r) /\ req[r].status = 200 /\ req[r].fetches = 1
        /\ req[r].insertedId = 0 /\ ~req[r].stored /\ ~req[w].stored
        /\ req[w].insertedId \in KeyRows(geocache, TrimmedQuery(r), req[r].svc)

====
